---- MODULE Spec2Model ----
(***************************************************************************)
(* Model of s3_downloader.py: the three commands ls, dump and download of  *)
(* the bucket explorer CLI.  Strings and byte strings are sequences of     *)
(* one-character tokens, so that prefix matching, basename, the '/' ->     *)
(* '__' replacement and the merge concatenation are computed as the code   *)
(* computes them.  The target directory is a flat map from file name to    *)
(* content plus a flag saying whether the directory exists.                *)
(***************************************************************************)
EXTENDS Naturals, Sequences, FiniteSets

VARIABLES
    cmd,            \* which command this process runs: "ls", "dump", "download"
    bucket,         \* argument bucket (bucket name)
    prefix,         \* argument prefix
    profile,        \* argument profile
    objects,        \* content of the bucket, in the order the backend enumerates it
    keys,           \* dump: argument keys (<<>> stands for None or an empty list)
    text,           \* dump: argument text
    new_dir,        \* download: argument new_dir
    raw,            \* download: argument raw
    merge,          \* download: argument merge
    aws_profile,    \* os.environ['AWS_PROFILE']
    pc,             \* "start", "loop", "done" (exit 0), "failed" (uncaught exception)
    i,              \* index, in the filtered enumeration, of the next object
    out,            \* lines printed on standard output by the current process
    dir_exists,     \* whether the target directory exists
    files,          \* target directory: file name -> content
    merged_bytes,   \* download: local variable merged_bytes
    run,            \* number of the current invocation of the command
    prev,           \* how the previous invocation ended and the files it left
    dir0,           \* whether the target directory existed before the first invocation
    fetched,        \* indices of the objects whose payload the current process requested
    writes,         \* files the current process opened for writing, in order
    failed_at       \* 0, or the index of the object on which the exception was raised

vars == <<cmd, bucket, prefix, profile, objects, keys, text, new_dir, raw, merge,
          aws_profile, pc, i, out, dir_exists, files, merged_bytes, run, prev,
          dir0, fetched, writes, failed_at>>

(***************************************************************************)
(* Bounds                                                                  *)
(***************************************************************************)
MaxObjects == 2
MaxRuns == 2

(***************************************************************************)
(* Input pools                                                             *)
(***************************************************************************)
BucketPool == { <<"b">> }

ProfilePool == { "production" }

KeyPool == { <<"a">>,
             <<"x", "/", "a">>,
             <<"x", "/">>,
             <<"b", "_", "_", ".", "j", "s", "o", "n">> }

PrefixPool == { <<>>, <<"x">>, <<"x", "/">> }

BodyPool == { <<"A", "A", "A">>, <<"B", "B", "B">> }

\* payloads of the dump runs
TextAAA == <<"A", "A", "A">>
BytesFF == <<"xFF">>
JsonEmptyArray == <<"[", "]">>
JsonNumber == <<"1">>
JsonRecord == <<"[", "{", "\"", "a", "\"", ":", "1", ",", "\"", "b", "\"", ":", "2", ",", "\"", "c", "\"", ":", "3", "}", "]">>
JsonTwoRecords == <<"[", "{", "\"", "b", "\"", ":", "2", "}", ",", "{", "\"", "a", "\"", ":", "n", "u", "l", "l", "}", "]">>
JsonRecordThenNumber == <<"[", "{", "\"", "b", "\"", ":", "2", "}", ",", "1", "]">>

DumpBodyPool == { TextAAA, BytesFF, JsonEmptyArray, JsonNumber, JsonRecord,
                  JsonTwoRecords, JsonRecordThenNumber }

DumpKeyPool == { <<"a">>, <<"x", "/", "a">>, <<"x", "/", "c">> }

\* values of the option --keys; <<>> is the default None as well as an empty list
KeysPool == { <<>>, <<"a", "b">>, <<"d">> }

Range(s) == { s[n] : n \in DOMAIN s }

\* every enumeration of at most MaxObjects objects with pairwise distinct keys
Buckets(keyPool, bodyPool) ==
    LET Objs == [key : keyPool, body : bodyPool]
    IN  { s \in UNION { [1..n -> Objs] : n \in 0..MaxObjects } :
            \A m, n \in DOMAIN s : m # n => s[m].key # s[n].key }

(***************************************************************************)
(* Terminal styling                                                        *)
(***************************************************************************)
ColorEND == "ESC[0m"
ColorTITLE == "ESC[6;30;43m"
ColorFILE == "ESC[0;33;40m"

\* A parsed JSON value that dump iterates over is a sequence of rows; a row is
\* a dict (its items in insertion order, values as their repr) or a scalar.
NoRow == [isdict |-> FALSE, items |-> <<>>, scalar |-> ""]

\* print(color + text + Color.END); the backquotes of the messages are written '
Styled(color, txt) ==
    [kind |-> "styled", text |-> <<color>> \o txt \o <<ColorEND>>, row |-> NoRow]

\* print(content)
Plain(txt) == [kind |-> "text", text |-> txt, row |-> NoRow]

\* print(display_dict)
Repr(row) == [kind |-> "row", text |-> <<>>, row |-> row]

(***************************************************************************)
(* String helpers                                                          *)
(***************************************************************************)
\* s3_bucket.objects.filter(Prefix=prefix): exact string prefix match on the key
StartsWithAny(s, p) == TRUE

StartsWith(s, p) == Len(p) <= Len(s) /\ SubSeq(s, 1, Len(p)) = p

Filter(objs, p) == SelectSeq(objs, LAMBDA o : StartsWith(o.key, p))

Matching == Filter(objects, prefix)

LastSlash(s) ==
    LET At == { n \in DOMAIN s : s[n] = "/" }
    IN  IF At = {} THEN 0 ELSE CHOOSE n \in At : \A m \in At : m <= n

\* os.path.basename
BasenameWholeKey(s) == s

Basename(s) == SubSeq(s, LastSlash(s) + 1, Len(s))

RECURSIVE ReplaceSlash(_)
\* str.replace('/', '__')
ReplaceSlash(s) ==
    IF s = <<>> THEN <<>>
    ELSE (IF Head(s) = "/" THEN <<"_", "_">> ELSE <<Head(s)>>) \o ReplaceSlash(Tail(s))

\* (s3_bucket.name + '__' + prefix + '.json').replace('/', '__')
MergedName(b, p) == ReplaceSlash(b \o <<"_", "_">> \o p \o <<".", "j", "s", "o", "n">>)

\* merged_bytes += bytes_content + b'\n'
MergeAppendNoNewline(acc, body) == acc \o body

MergeAppend(acc, body) == acc \o body \o <<"\n">>

(***************************************************************************)
(* File system                                                             *)
(***************************************************************************)
NoFiles == [n \in {} |-> <<>>]

\* names under the target directory that open(path, 'wb') cannot create
DirNames == { <<>>, <<".">>, <<".", ".">> }

\* open(os.path.join(target, file_name), 'wb') raises
CannotOpenIgnoringDir(dir, name) == name \in DirNames

CannotOpen(dir, name) == ~dir \/ name \in DirNames

\* the file at name after open(.., 'wb') and a write of content
WriteFileAppend(f, name, content) ==
    [n \in DOMAIN f \cup {name} |->
        IF n = name THEN (IF name \in DOMAIN f THEN f[name] ELSE <<>>) \o content
        ELSE f[n]]

WriteFile(f, name, content) ==
    [n \in DOMAIN f \cup {name} |-> IF n = name THEN content ELSE f[n]]

(***************************************************************************)
(* Faults of the collaborators (storage client, file system)               *)
(***************************************************************************)
Faults == { "none", "fetch", "open", "write" }

\* an exception raised in the loop body is not caught: the command ends
AfterObjectSwallow(ok) == "loop"

AfterObject(ok) == IF ok THEN "loop" ELSE "failed"

\* whether the loop body writes a file of its own for the object
WritesOwnFileAlways(r, m) == TRUE

WritesOwnFile(r, m) == ~r \/ ~m

(***************************************************************************)
(* Initial states                                                          *)
(***************************************************************************)
NoPrev == [pc |-> "none", files |-> NoFiles]

InitProcess ==
    /\ aws_profile = "unset"
    /\ pc = "start"
    /\ i = 1
    /\ out = <<>>
    /\ files = NoFiles
    /\ merged_bytes = <<>>
    /\ run = 1
    /\ prev = NoPrev
    /\ dir0 = dir_exists
    /\ fetched = <<>>
    /\ writes = <<>>
    /\ failed_at = 0

InitDownload ==
    /\ cmd = "download"
    /\ bucket \in BucketPool
    /\ prefix \in PrefixPool
    /\ profile \in ProfilePool
    /\ objects \in Buckets(KeyPool, BodyPool)
    /\ keys = <<>>
    /\ text = TRUE
    /\ new_dir \in BOOLEAN
    /\ raw \in BOOLEAN
    /\ merge \in BOOLEAN
    /\ dir_exists \in BOOLEAN
    /\ InitProcess

(***************************************************************************)
(* Shared steps                                                            *)
(***************************************************************************)
\* set_profile
SetProfile == aws_profile' = profile

\* the lazy enumeration raises (authentication, missing bucket, network):
\* the for statement propagates the exception
EnumerationFails ==
    /\ pc = "loop"
    /\ pc' = "failed"
    /\ failed_at' = i
    /\ UNCHANGED <<cmd, bucket, prefix, profile, objects, keys, text, new_dir, raw,
                   merge, aws_profile, i, out, dir_exists, files, merged_bytes, run,
                   prev, dir0, fetched, writes>>

(***************************************************************************)
(* download                                                                *)
(***************************************************************************)
Downloaded(what, path) ==
    Styled(ColorFILE, <<"Downloaded '">> \o what \o <<"' to '">> \o path \o <<"'">>)

\* lines 91-100: up to and including os.makedirs(name=target, exist_ok=True)
DownloadBegin ==
    /\ cmd = "download"
    /\ pc = "start"
    /\ merged_bytes' = <<>>
    /\ SetProfile
    /\ out' = Append(out, Styled(ColorTITLE,
                 <<"Downloading content in bucket '">> \o bucket
                     \o <<"' with prefix '">> \o prefix \o <<"'">>))
    /\ dir_exists' = (new_dir \/ dir_exists)
    /\ pc' = "loop"
    /\ i' = 1
    /\ UNCHANGED <<cmd, bucket, prefix, profile, objects, keys, text, new_dir, raw,
                   merge, files, run, prev, dir0, fetched, writes, failed_at>>

\* lines 102-121: one iteration of the loop over the matching objects
DownloadObject ==
    /\ cmd = "download"
    /\ pc = "loop"
    /\ i <= Len(Matching)
    /\ \E fault \in Faults :
        LET s3_object == Matching[i]
            file_name == Basename(s3_object.key)
            path      == file_name
            body      == s3_object.body
            own       == WritesOwnFile(raw, merge)
            \* the payload is requested unless open() raised first
            opens     == own /\ ~(raw /\ fault = "fetch")
            openFails == opens /\ (CannotOpen(dir_exists, path) \/ fault = "open")
            requested == IF raw THEN TRUE ELSE ~openFails
            fetchFails == requested /\ fault = "fetch"
            writeFails == opens /\ ~openFails /\ ~fetchFails /\ fault = "write"
            ok        == ~openFails /\ ~fetchFails /\ ~writeFails
            truncated == opens /\ ~openFails
        IN  /\ fetched' = IF requested THEN Append(fetched, i) ELSE fetched
            /\ writes' = IF truncated
                         THEN Append(writes, [name |-> path, src |-> i])
                         ELSE writes
            /\ IF ~truncated
               THEN files' = files
               ELSE IF ok
                    THEN files' = WriteFile(files, path, body)
                    ELSE \E n \in 0..Len(body) :
                            files' = WriteFile(files, path, SubSeq(body, 1, n))
            /\ merged_bytes' = IF ok /\ ~own
                               THEN MergeAppend(merged_bytes, body)
                               ELSE merged_bytes
            /\ out' = IF ok /\ own
                      THEN Append(out, Downloaded(s3_object.key, path))
                      ELSE out
            /\ pc' = AfterObject(ok)
            /\ failed_at' = IF ok THEN failed_at ELSE i
            /\ i' = i + 1
    /\ UNCHANGED <<cmd, bucket, prefix, profile, objects, keys, text, new_dir, raw,
                   merge, aws_profile, dir_exists, run, prev, dir0>>

\* lines 123-129: after the loop
DownloadEnd ==
    /\ cmd = "download"
    /\ pc = "loop"
    /\ i > Len(Matching)
    /\ IF ~merge
       THEN /\ pc' = "done"
            /\ UNCHANGED <<files, out, writes, failed_at>>
       ELSE \E fault \in {"none", "open", "write"} :
            LET file_name == MergedName(bucket, prefix)
                path      == file_name
                openFails == CannotOpen(dir_exists, path) \/ fault = "open"
                ok        == ~openFails /\ fault = "none"
            IN  /\ writes' = IF openFails THEN writes
                             ELSE Append(writes, [name |-> path, src |-> 0])
                /\ IF openFails
                   THEN files' = files
                   ELSE IF ok
                        THEN files' = WriteFile(files, path, merged_bytes)
                        ELSE \E n \in 0..Len(merged_bytes) :
                                files' = WriteFile(files, path, SubSeq(merged_bytes, 1, n))
                /\ out' = IF ok
                          THEN Append(out, Downloaded(bucket \o <<"/">> \o prefix, path))
                          ELSE out
                /\ pc' = IF ok THEN "done" ELSE "failed"
                /\ failed_at' = IF ok THEN failed_at ELSE i
    /\ UNCHANGED <<cmd, bucket, prefix, profile, objects, keys, text, new_dir, raw,
                   merge, aws_profile, i, dir_exists, merged_bytes, run, prev, dir0,
                   fetched>>

\* after the command completed, the user runs the same command line again, on
\* the directory the previous process left, with unchanged bucket content
Rerun ==
    /\ cmd = "download"
    /\ pc = "done"
    /\ run < MaxRuns
    /\ run' = run + 1
    /\ prev' = [pc |-> pc, files |-> files]
    /\ pc' = "start"
    /\ i' = 1
    /\ out' = <<>>
    /\ merged_bytes' = <<>>
    /\ fetched' = <<>>
    /\ writes' = <<>>
    /\ failed_at' = 0
    /\ UNCHANGED <<cmd, bucket, prefix, profile, objects, keys, text, new_dir, raw,
                   merge, aws_profile, dir_exists, files, dir0>>

(***************************************************************************)
(* ls                                                                      *)
(***************************************************************************)
InitLs ==
    /\ cmd = "ls"
    /\ bucket \in BucketPool
    /\ prefix \in PrefixPool
    /\ profile \in ProfilePool
    /\ objects \in Buckets(KeyPool, BodyPool)
    /\ keys = <<>>
    /\ text = TRUE
    /\ new_dir = FALSE
    /\ raw = FALSE
    /\ merge = FALSE
    /\ dir_exists = TRUE
    /\ InitProcess

\* lines 29-32
LsBegin ==
    /\ cmd = "ls"
    /\ pc = "start"
    /\ SetProfile
    /\ out' = Append(out, Styled(ColorTITLE, <<"Listing bucket '">> \o bucket \o <<"'">>))
    /\ pc' = "loop"
    /\ i' = 1
    /\ UNCHANGED <<cmd, bucket, prefix, profile, objects, keys, text, new_dir, raw,
                   merge, dir_exists, files, merged_bytes, run, prev, dir0, fetched,
                   writes, failed_at>>

\* lines 33-34: one iteration
LsObject ==
    /\ cmd = "ls"
    /\ pc = "loop"
    /\ i <= Len(Matching)
    /\ out' = Append(out, Styled(ColorFILE, Matching[i].key))
    /\ i' = i + 1
    /\ UNCHANGED <<cmd, bucket, prefix, profile, objects, keys, text, new_dir, raw,
                   merge, aws_profile, pc, dir_exists, files, merged_bytes, run, prev,
                   dir0, fetched, writes, failed_at>>

\* the enumeration is exhausted and the function returns
LsEnd ==
    /\ cmd = "ls"
    /\ pc = "loop"
    /\ i > Len(Matching)
    /\ pc' = "done"
    /\ UNCHANGED <<cmd, bucket, prefix, profile, objects, keys, text, new_dir, raw,
                   merge, aws_profile, i, out, dir_exists, files, merged_bytes, run,
                   prev, dir0, fetched, writes, failed_at>>

(***************************************************************************)
(* dump                                                                    *)
(***************************************************************************)
InitDump ==
    /\ cmd = "dump"
    /\ bucket \in BucketPool
    /\ prefix \in { <<>>, <<"x", "/">> }
    /\ profile \in ProfilePool
    /\ objects \in Buckets(DumpKeyPool, DumpBodyPool)
    /\ keys \in KeysPool
    /\ text \in BOOLEAN
    /\ new_dir = FALSE
    /\ raw = FALSE
    /\ merge = FALSE
    /\ dir_exists = TRUE
    /\ InitProcess

\* bytes.decode('utf-8') raises UnicodeDecodeError: of the bytes of the pools
\* only xFF is not ASCII, and it is valid nowhere in UTF-8
DecodeFails(body) == "xFF" \in Range(body)

\* bytes.decode('utf-8') of ASCII bytes: the same characters
Decode(body) == body

Dict(items) == [isdict |-> TRUE, items |-> items, scalar |-> ""]
Scalar(v) == [isdict |-> FALSE, items |-> <<>>, scalar |-> v]

\* json.loads on the texts of DumpBodyPool: ok is FALSE when it raises
\* JSONDecodeError, iterable is FALSE when the value cannot be iterated (a number)
JsonLoads(content) ==
    CASE content = JsonEmptyArray ->
            [ok |-> TRUE, iterable |-> TRUE, rows |-> <<>>]
      [] content = JsonNumber ->
            [ok |-> TRUE, iterable |-> FALSE, rows |-> <<>>]
      [] content = JsonRecord ->
            [ok |-> TRUE, iterable |-> TRUE,
             rows |-> << Dict(<< <<"a", "1">>, <<"b", "2">>, <<"c", "3">> >>) >>]
      [] content = JsonTwoRecords ->
            [ok |-> TRUE, iterable |-> TRUE,
             rows |-> << Dict(<< <<"b", "2">> >>), Dict(<< <<"a", "None">> >>) >>]
      [] content = JsonRecordThenNumber ->
            [ok |-> TRUE, iterable |-> TRUE,
             rows |-> << Dict(<< <<"b", "2">> >>), Scalar("1") >>]
      [] OTHER ->
            [ok |-> FALSE, iterable |-> FALSE, rows |-> <<>>]

\* dict.get(key): the value, or None
DictGet(items, k) ==
    IF \E n \in DOMAIN items : items[n][1] = k
    THEN items[CHOOSE n \in DOMAIN items : items[n][1] = k][2]
    ELSE "None"

\* d[k] = v on an insertion-ordered dict
DictSet(items, k, v) ==
    IF \E n \in DOMAIN items : items[n][1] = k
    THEN [n \in DOMAIN items |-> IF items[n][1] = k THEN <<k, v>> ELSE items[n]]
    ELSE Append(items, <<k, v>>)

RECURSIVE Comprehension(_, _)
\* {key: row.get(key) for key in keys}
Comprehension(items, ks) ==
    IF ks = <<>> THEN <<>>
    ELSE LET k == ks[Len(ks)]
         IN  DictSet(Comprehension(items, SubSeq(ks, 1, Len(ks) - 1)), k, DictGet(items, k))

RECURSIVE ComprehensionPresentOnly(_, _)
ComprehensionPresentOnly(items, ks) ==
    IF ks = <<>> THEN <<>>
    ELSE LET k == ks[Len(ks)]
             rest == ComprehensionPresentOnly(items, SubSeq(ks, 1, Len(ks) - 1))
         IN  IF \E n \in DOMAIN items : items[n][1] = k
             THEN DictSet(rest, k, DictGet(items, k))
             ELSE rest

\* display_dict = {key: row.get(key) for key in keys} if keys else row
DisplayDictPresentOnly(row, ks) ==
    IF ks # <<>> THEN Dict(ComprehensionPresentOnly(row.items, ks)) ELSE row

DisplayDict(row, ks) == IF ks # <<>> THEN Dict(Comprehension(row.items, ks)) ELSE row

\* row.get raises AttributeError: the row is no dict and keys are requested
RowFails(row, ks) == ks # <<>> /\ ~row.isdict

\* lines 54-58
DumpBegin ==
    /\ cmd = "dump"
    /\ pc = "start"
    /\ SetProfile
    /\ out' = Append(out, Styled(ColorTITLE,
                 <<"Showing content in bucket '">> \o bucket
                     \o <<"' with prefix '">> \o prefix \o <<"'">>))
    /\ pc' = "loop"
    /\ i' = 1
    /\ UNCHANGED <<cmd, bucket, prefix, profile, objects, keys, text, new_dir, raw,
                   merge, dir_exists, files, merged_bytes, run, prev, dir0, fetched,
                   writes, failed_at>>

\* lines 59-70: one iteration
DumpObject ==
    /\ cmd = "dump"
    /\ pc = "loop"
    /\ i <= Len(Matching)
    /\ \E fault \in {"none", "fetch"} :
        LET s3_object == Matching[i]
            banner    == Append(out, Styled(ColorFILE, s3_object.key))
            body      == s3_object.body
            readable  == fault = "none" /\ ~DecodeFails(body)
            content   == Decode(body)
            json_content == JsonLoads(content)
            rows      == json_content.rows
            Bad       == { n \in DOMAIN rows : RowFails(rows[n], keys) }
            \* number of rows printed before the loop ends or a row raises
            shown     == IF Bad = {} THEN Len(rows)
                         ELSE (CHOOSE n \in Bad : \A m \in Bad : n <= m) - 1
            ok        == /\ readable
                         /\ text \/ (json_content.ok /\ json_content.iterable /\ Bad = {})
        IN  /\ fetched' = Append(fetched, i)
            /\ out' = IF ~readable THEN banner
                      ELSE IF text THEN Append(banner, Plain(content))
                      ELSE IF ~(json_content.ok /\ json_content.iterable) THEN banner
                      ELSE banner \o [n \in 1..shown |-> Repr(DisplayDict(rows[n], keys))]
            /\ pc' = AfterObject(ok)
            /\ failed_at' = IF ok THEN failed_at ELSE i
            /\ i' = i + 1
    /\ UNCHANGED <<cmd, bucket, prefix, profile, objects, keys, text, new_dir, raw,
                   merge, aws_profile, dir_exists, files, merged_bytes, run, prev,
                   dir0, writes>>

\* the enumeration is exhausted and the function returns
DumpEnd ==
    /\ cmd = "dump"
    /\ pc = "loop"
    /\ i > Len(Matching)
    /\ pc' = "done"
    /\ UNCHANGED <<cmd, bucket, prefix, profile, objects, keys, text, new_dir, raw,
                   merge, aws_profile, i, out, dir_exists, files, merged_bytes, run,
                   prev, dir0, fetched, writes, failed_at>>

(***************************************************************************)
(* The program: one of the three commands                                  *)
(***************************************************************************)
Init == InitLs \/ InitDump \/ InitDownload

Next ==
    \/ LsBegin
    \/ LsObject
    \/ LsEnd
    \/ DumpBegin
    \/ DumpObject
    \/ DumpEnd
    \/ DownloadBegin
    \/ DownloadObject
    \/ DownloadEnd
    \/ EnumerationFails
    \/ Rerun

Spec == Init /\ [][Next]_vars

(***************************************************************************)
(* Vocabulary of the properties, defined apart from the operators above    *)
(***************************************************************************)
\* the key starts with the prefix
IsPrefixOf(p, s) == Len(p) <= Len(s) /\ \A n \in 1..Len(p) : s[n] = p[n]

\* the objects of the bucket that match the prefix, in enumeration order
Matches == SelectSeq(objects, LAMBDA o : IsPrefixOf(prefix, o.key))

RECURSIVE LastSegment(_)
\* the last path segment of a key
LastSegment(s) == IF "/" \notin Range(s) THEN s ELSE LastSegment(Tail(s))

Segment(j) == LastSegment(Matches[j].key)

Segments == { Segment(j) : j \in DOMAIN Matches }

\* the payload of the key enumerated last among those with this last segment
LastPayload(name) ==
    LET At == { j \in DOMAIN Matches : Segment(j) = name }
    IN  Matches[CHOOSE j \in At : \A k \in At : k <= j].body

RECURSIVE Sanitized(_)
\* every '/' replaced by '__'
Sanitized(s) ==
    IF s = <<>> THEN <<>>
    ELSE Sanitized(SubSeq(s, 1, Len(s) - 1))
            \o (IF s[Len(s)] = "/" THEN <<"_", "_">> ELSE <<s[Len(s)]>>)

\* {bucket}__{prefix}.json with every '/' replaced by '__'
MergedFile == Sanitized(bucket) \o <<"_", "_">> \o Sanitized(prefix) \o <<".", "j", "s", "o", "n">>

RECURSIVE PayloadLines(_)
\* each payload followed by one newline byte, in order
PayloadLines(objs) ==
    IF objs = <<>> THEN <<>>
    ELSE Head(objs).body \o <<"\n">> \o PayloadLines(Tail(objs))

\* the files of dir, with those of over replacing or added to them
Overlay(dir, over) ==
    [n \in DOMAIN dir \cup DOMAIN over |-> IF n \in DOMAIN over THEN over[n] ELSE dir[n]]

\* one file per distinct last segment, holding the payload enumerated last
PerObjectFiles == [n \in Segments |-> LastPayload(n)]

IsPrefixSeq(s, t) == Len(s) <= Len(t) /\ SubSeq(t, 1, Len(s)) = s

Completed == pc = "done"

(***************************************************************************)
(* C1: ls prints, after its banner, exactly one line per object whose key  *)
(* starts with the prefix, in enumeration order, and no other line.        *)
(***************************************************************************)
LsLines ==
    << Styled(ColorTITLE, <<"Listing bucket '">> \o bucket \o <<"'">>) >>
        \o [j \in DOMAIN Matches |-> Styled(ColorFILE, Matches[j].key)]

C1_LsPrintsMatchingKeys ==
    cmd = "ls" =>
        /\ IsPrefixSeq(out, LsLines)
        /\ Completed => out = LsLines

\* ls completed on a bucket of which it listed some objects and skipped others
C1_Witness ==
    /\ cmd = "ls"
    /\ Completed
    /\ Len(out) >= 2
    /\ Len(objects) > Len(out) - 1

C9_NoMergeResult ==
    (cmd = "download" /\ ~merge /\ Completed) =>
        files = Overlay(prev.files, PerObjectFiles)

(***************************************************************************)
(* C4: download with raw=false, once completed, has for every matching    *)
(* object a file named by the last segment of its key.  As claimed, the    *)
(* file holds that object's payload; as amended, it holds the payload of   *)
(* the last enumerated matching object with that last segment, except that *)
(* with merge=true the file named like the merged file is empty.  The      *)
(* claim as made is stated on the runs with merge=false, where only the    *)
(* keys' last segments decide it.                                          *)
(***************************************************************************)
C4_Original ==
    (cmd = "download" /\ ~raw /\ ~merge /\ Completed) =>
        \A j \in DOMAIN Matches :
            /\ Segment(j) \in DOMAIN files
            /\ files[Segment(j)] = Matches[j].body

C4_FilesByLastSegment ==
    (cmd = "download" /\ ~raw /\ Completed) =>
        \A j \in DOMAIN Matches :
            /\ Segment(j) \in DOMAIN files
            /\ files[Segment(j)] =
                  IF merge /\ Segment(j) = MergedFile THEN <<>>
                  ELSE LastPayload(Segment(j))

\* a completed raw=false download of a key with directory components
C4_Witness ==
    /\ cmd = "download" /\ ~raw /\ Completed
    /\ \E j \in DOMAIN Matches :
          /\ Segment(j) # Matches[j].key
          /\ files[Segment(j)] = Matches[j].body

(***************************************************************************)
(* C5: download with new_dir=false on a target directory that does not     *)
(* exist.  As claimed, it never completes, whatever raw, merge and the     *)
(* matching objects are, and writes no file and creates no directory; as   *)
(* amended, it completes only when no object matches and merge is false.   *)
(***************************************************************************)
C5_Original ==
    (cmd = "download" /\ ~new_dir /\ ~dir0) =>
        /\ ~Completed
        /\ writes = <<>> /\ files = NoFiles /\ ~dir_exists

C5_MissingTargetFails ==
    (cmd = "download" /\ ~new_dir /\ ~dir0) =>
        /\ Completed => (Matches = <<>> /\ ~merge)
        /\ writes = <<>> /\ files = NoFiles /\ ~dir_exists

\* the command failed on the missing directory after it fetched a payload
C5_Witness ==
    /\ cmd = "download" /\ ~new_dir /\ ~dir0
    /\ pc = "failed"
    /\ fetched # <<>>
    /\ files = NoFiles

(***************************************************************************)
(* C6: a second completed run of download with the same arguments on       *)
(* unchanged bucket content leaves the files and contents of the first.    *)
(***************************************************************************)
C6_DownloadIdempotent ==
    (cmd = "download" /\ run > 1 /\ Completed) => files = prev.files

\* the second run completed and rewrote a file
C6_Witness ==
    /\ cmd = "download" /\ run > 1 /\ Completed
    /\ writes # <<>>
    /\ \E n \in DOMAIN files : files[n] # <<>>

(***************************************************************************)
(* C7: dump with text=false prints, for each record of each object's JSON  *)
(* array in order, a mapping whose key set is exactly the requested keys,  *)
(* each mapped to the record's value or to None when the record lacks it,  *)
(* or the record unmodified when no keys are requested; with text=true it  *)
(* prints the decoded payload as is, and parses nothing.                   *)
(***************************************************************************)
RECURSIVE Records(_)
\* the records of the JSON arrays of the objects, in order
Records(objs) ==
    IF objs = <<>> THEN <<>>
    ELSE JsonLoads(Head(objs).body).rows \o Records(Tail(objs))

RowsPrinted == SelectSeq(out, LAMBDA l : l.kind = "row")

TextsPrinted == SelectSeq(out, LAMBDA l : l.kind = "text")

ItemKeys(items) == { items[n][1] : n \in DOMAIN items }

ItemValue(items, k) == items[CHOOSE n \in DOMAIN items : items[n][1] = k][2]

C7_DumpProjectsRecords ==
    (cmd = "dump" /\ Completed) =>
        IF text
        THEN /\ RowsPrinted = <<>>
             /\ TextsPrinted = [j \in DOMAIN Matches |-> Plain(Matches[j].body)]
        ELSE /\ TextsPrinted = <<>>
             /\ Len(RowsPrinted) = Len(Records(Matches))
             /\ \A n \in DOMAIN RowsPrinted :
                  LET shown  == RowsPrinted[n].row
                      record == Records(Matches)[n]
                  IN  IF keys = <<>> THEN shown = record
                      ELSE /\ shown.isdict
                           /\ Len(shown.items) = Cardinality(ItemKeys(shown.items))
                           /\ ItemKeys(shown.items) = Range(keys)
                           /\ \A k \in Range(keys) :
                                ItemValue(shown.items, k) =
                                    IF k \in ItemKeys(record.items)
                                    THEN ItemValue(record.items, k)
                                    ELSE "None"

\* the record {"a":1,"b":2,"c":3} shown as {a: 1, b: 2}, and a record without
\* the key a shown with a: None
C7_Witness ==
    /\ cmd = "dump" /\ Completed /\ ~text
    /\ keys = <<"a", "b">>
    /\ \E n \in DOMAIN out : out[n].row = Dict(<< <<"a", "1">>, <<"b", "2">> >>)
    /\ \E n \in DOMAIN out : out[n].row = Dict(<< <<"a", "None">>, <<"b", "2">> >>)

(***************************************************************************)
(* C8: no command catches an error.  When the step for the k-th object     *)
(* raises, the command ends there, no later object is fetched, printed or  *)
(* written, and the lines printed before stay.  As claimed, every file     *)
(* written for an earlier object stays as it was; as amended, every file   *)
(* stays as it was except the one at the k-th object's own path, which     *)
(* download has opened for writing and which holds a prefix of the k-th    *)
(* payload (of the merged bytes, for the merged file).                     *)
(***************************************************************************)
\* the exception ends the process: nothing is fetched or written past k
AbortsAtOnce ==
    failed_at # 0 =>
        /\ pc = "failed"
        /\ \A n \in DOMAIN fetched : fetched[n] <= failed_at
        /\ \A n \in DOMAIN writes : writes[n].src <= failed_at

\* a step that raises
Raises == pc = "loop" /\ pc' = "failed"

\* the path the step at i writes to
OwnPath == IF i <= Len(Matches) THEN Segment(i) ELSE MergedFile

OwnContent == IF i <= Len(Matches) THEN Matches[i].body ELSE merged_bytes

C8_Original ==
    /\ []AbortsAtOnce
    /\ [][pc = "failed" => UNCHANGED vars]_vars
    /\ [][(Raises /\ i <= Len(Matches)) =>
            /\ IsPrefixSeq(out, out')
            /\ \A n \in DOMAIN writes :
                  /\ writes[n].name \in DOMAIN files'
                  /\ files'[writes[n].name] = files[writes[n].name]]_vars

C8_ErrorsAbortWithoutRollback ==
    /\ []AbortsAtOnce
    /\ [][pc = "failed" => UNCHANGED vars]_vars
    /\ [][Raises =>
            /\ IsPrefixSeq(out, out')
            /\ DOMAIN files \subseteq DOMAIN files'
            /\ DOMAIN files' \subseteq DOMAIN files \cup {OwnPath}
            /\ \A n \in DOMAIN files : n # OwnPath => files'[n] = files[n]
            /\ OwnPath \in DOMAIN files' =>
                  \/ OwnPath \in DOMAIN files /\ files'[OwnPath] = files[OwnPath]
                  \/ IsPrefixSeq(files'[OwnPath], OwnContent)]_vars

\* the command failed on its second object after it wrote a file for the first
C8_Witness ==
    /\ cmd = "download"
    /\ pc = "failed"
    /\ failed_at = 2
    /\ Len(writes) >= 1
    /\ writes[1].src = 1
    /\ writes[1].name \in DOMAIN files
    /\ files[writes[1].name] = Matches[1].body

(***************************************************************************)
(* C9: in download without merge (raw=false, or raw=true with merge=false) *)
(* two matching keys with the same last segment are written to one path,   *)
(* which in the end holds the payload of the key enumerated last, and the  *)
(* number of files written is the number of distinct last segments.        *)
(***************************************************************************)
FilesWritten == { writes[n].name : n \in DOMAIN writes }

SegmentShared == \E j, k \in DOMAIN Matches : j # k /\ Segment(j) = Segment(k)

C9_CollisionLastWins ==
    (cmd = "download" /\ (~raw \/ (raw /\ ~merge)) /\ SegmentShared /\ Completed) =>
        /\ \A j \in DOMAIN Matches :
              /\ Segment(j) \in DOMAIN files
              /\ files[Segment(j)] = LastPayload(Segment(j))
        /\ Cardinality(FilesWritten) = Cardinality(Segments)

(***************************************************************************)
(* C10: download with raw and merge writes no file while it enumerates:    *)
(* if a fetch fails no file has been written, the merged file is written   *)
(* only after every matching object has been fetched, and it is written,   *)
(* empty, when the command completes and no object matched.                *)
(***************************************************************************)
C10_MergeAllOrNothing ==
    (cmd = "download" /\ raw /\ merge) =>
        /\ (pc = "loop" \/ (pc = "failed" /\ failed_at <= Len(Matches))) =>
              (writes = <<>> /\ files = prev.files)
        /\ writes # <<>> =>
              /\ fetched = [j \in DOMAIN Matches |-> j]
              /\ writes = << [name |-> MergedFile, src |-> 0] >>
        /\ (Completed /\ Matches = <<>>) =>
              (MergedFile \in DOMAIN files /\ files[MergedFile] = <<>>)

\* the second fetch failed and the directory holds no file
C10_Witness ==
    /\ cmd = "download" /\ raw /\ merge
    /\ pc = "failed"
    /\ fetched = <<1, 2>>
    /\ failed_at = 2
    /\ dir_exists
    /\ files = NoFiles

====
